---- MODULE Spec2Model ----
(***************************************************************************)
(* MT4 Multi-Account Monitor, central server (src/server.py).              *)
(*                                                                         *)
(* The server keeps two process-wide dictionaries, accounts and alerted,   *)
(* shared without any lock by the request handlers of POST /report,        *)
(* GET /accounts and DELETE /account/<id> and by the background thread     *)
(* background_tasks.  Every access to a shared dictionary (or to the       *)
(* clock) is one atomic step of the model; what a thread computes on its   *)
(* locals between two accesses belongs to the step that precedes it.       *)
(*                                                                         *)
(* Units: money is counted in hundredths of the reported unit (a raw       *)
(* balance of 0.40 is 40), margin_level in whole percent, the clock in     *)
(* whole seconds, the resolution of the last_update format.                *)
(***************************************************************************)
EXTENDS Integers, Sequences, FiniteSets, TLC

VARIABLES
    accounts,     \* dict accounts: account id -> stored record
    keys,         \* insertion order of the keys of accounts
    alerted,      \* dict alerted: account id -> "danger" | "warn" | "ok"
    clock,        \* the last reading of datetime.now(timezone.utc), in seconds
    mpc,          \* background_tasks: position of the thread
    mkeys,        \* background_tasks: ids of the snapshot still to visit
    macc,         \* background_tasks: local acc
    mtier,        \* background_tasks: branch taken for acc_id
    rh,           \* receive_report: one entry per handler thread
    dh,           \* delete_account: one entry per handler thread
    quota,        \* requests the clients have still to send
    resp,         \* the response returned last by a request handler
    sent,         \* per id: the message sent last, and whether the id was
                  \* removed since
    outcome,      \* how the last send_telegram call ended
    gh,           \* get_accounts: the handler thread
    listing,      \* the body returned last by GET /accounts
    depleted,     \* ids whose record had balance <= 0 when the running
                  \* cycle took its snapshot, and was not stored anew since
    ev            \* a call of the tier chain on its own: arguments, result

vars == <<accounts, keys, alerted, clock, mpc, mkeys, macc, mtier, rh, dh,
          quota, resp, sent, outcome, gh, listing, depleted, ev>>

----------------------------------------------------------------------------
(* Bounds of the model *)

MaxRequests == 2

\* the readings of the clock, in seconds
Seconds == 0 .. 1

ReportThreads == 1 .. 2

DeleteThreads == 1 .. 2

\* thresholds and margin levels for the tier chain taken on its own
MaxThreshold == 5

Thresholds == 1 .. MaxThreshold

MarginLevels == -1 .. MaxThreshold + 1

----------------------------------------------------------------------------
(* JSON values.  t is the JSON type; a key that is absent is "missing". *)

Num(n) == [t |-> "num", n |-> n, s |-> ""]

Str(s) == [t |-> "str", n |-> 0, s |-> s]

Bool(b) == [t |-> "bool", n |-> IF b THEN 1 ELSE 0, s |-> ""]

Time(n) == [t |-> "time", n |-> n, s |-> ""]

Null == [t |-> "null", n |-> 0, s |-> ""]

Missing == [t |-> "missing", n |-> 0, s |-> ""]

IsNum(v) == v.t = "num"

\* dict.get(key, default)
Get(v, default) == IF v.t = "missing" THEN default ELSE v

----------------------------------------------------------------------------
(* Configuration *)

DANGER_ML == 150

WARN_ML == 250

CENT_CURRENCIES == {"USC", "USc", "usc", "cent", "CENT", "ZAc", "GBp"}

Ids == {"7001", "unknown"}

\* the empty JSON object, and the value of a local that holds no record.
\* baskets is the list under the key "baskets", empty when the key is
\* absent: data.get("baskets", []).
NoRecord == [account_id |-> Missing, currency |-> Missing,
             balance |-> Missing, equity |-> Missing, margin |-> Missing,
             free_margin |-> Missing, floating |-> Missing, baskets |-> <<>>,
             margin_level |-> Missing, last_update |-> Missing,
             is_cent |-> Missing, currency_display |-> Missing]

\* the monetary fields of a record and of a basket
MoneyFields == {"balance", "equity", "margin", "free_margin", "floating"}

BasketFields == {"buy_profit", "sell_profit", "net_profit"}

----------------------------------------------------------------------------
(* CENT ACCOUNT CONVERTER *)

\* round(v / 100, 2) on a value counted in hundredths.  A tie (v ending in
\* 50) is decided in Python by the binary value of the quotient; it is
\* resolved here to the even neighbour, and no payload below is a tie.
Div100Round2(v) ==
    LET q == v \div 100
        r == v % 100
    IN  IF r < 50 THEN q
        ELSE IF r > 50 THEN q + 1
        ELSE IF q % 2 = 0 THEN q ELSE q + 1

IsCent(data) ==
    LET currency == Get(data.currency, Str("USD"))
    IN  currency.t = "str" /\ currency.s \in CENT_CURRENCIES

\* data.get(field, 0) / 100 raises TypeError unless the value is a number
NormalizeRaises(data) ==
    /\ IsCent(data)
    /\ \/ \E f \in MoneyFields : ~IsNum(Get(data[f], Num(0)))
       \/ \E i \in 1 .. Len(data.baskets), f \in BasketFields :
              ~IsNum(Get(data.baskets[i][f], Num(0)))

\* round(v.get(field, 0) / 100, 2)
Cents(v) == Num(Div100Round2(Get(v, Num(0)).n))

\* the converter with every amount divided a second time
normalize_account_Twice(data) ==
    LET currency == Get(data.currency, Str("USD"))
    IN  IF IsCent(data)
        THEN [f \in DOMAIN data |->
                 IF f \in MoneyFields THEN Cents(Cents(data[f]))
                 ELSE IF f = "baskets"
                 THEN [i \in 1 .. Len(data.baskets) |->
                          [g \in BasketFields |->
                              Cents(Cents(data.baskets[i][g]))]]
                 ELSE IF f = "is_cent" THEN Bool(TRUE)
                 ELSE IF f = "currency_display" THEN Str("USD (c)")
                 ELSE data[f]]
        ELSE [data EXCEPT
                 !.is_cent = Bool(FALSE),
                 !.currency_display = currency]

normalize_account(data) ==
    LET currency == Get(data.currency, Str("USD"))
    IN  IF IsCent(data)
        THEN [f \in DOMAIN data |->
                 IF f \in MoneyFields THEN Cents(data[f])
                 ELSE IF f = "baskets"
                 THEN [i \in 1 .. Len(data.baskets) |->
                          [g \in BasketFields |-> Cents(data.baskets[i][g])]]
                 ELSE IF f = "is_cent" THEN Bool(TRUE)
                 ELSE IF f = "currency_display" THEN Str("USD (c)")
                 ELSE data[f]]
        ELSE [data EXCEPT
                 !.is_cent = Bool(FALSE),
                 !.currency_display = currency]

----------------------------------------------------------------------------
(* Shared dictionaries *)

Has(d, k) == k \in DOMAIN d

\* d[k] = v
Put(d, k, v) == [x \in DOMAIN d \cup {k} |-> IF x = k THEN v ELSE d[x]]

\* d.pop(k, None)
Pop(d, k) == [x \in DOMAIN d \ {k} |-> d[x]]

\* key order of a dict after d[k] = v
PutKey(ks, k) == IF \E i \in 1 .. Len(ks) : ks[i] = k THEN ks ELSE Append(ks, k)

\* key order of a dict after d.pop(k, None)
PopKey(ks, k) == SelectSeq(ks, LAMBDA x : x # k)

\* alerted.get(acc_id)
AlertedGet(id) == IF Has(alerted, id) THEN alerted[id] ELSE "none"

\* datetime.now(timezone.utc).strftime("%Y-%m-%d %H:%M:%S UTC"): a string
\* of fixed width whose order is the order of the seconds it prints
Strftime(now) == Time(now)

----------------------------------------------------------------------------
(* Request bodies the agents post *)

Basket(buy, sell, net) ==
    [buy_profit |-> buy, sell_profit |-> sell, net_profit |-> net]

Healthy == [NoRecord EXCEPT !.account_id = Str("7001"),
                            !.currency = Str("USD"),
                            !.balance = Num(10000),
                            !.equity = Num(9000),
                            !.margin = Num(3000),
                            !.free_margin = Num(6000),
                            !.floating = Num(-1000),
                            !.baskets = <<Basket(Num(260), Num(-1260),
                                                 Num(-1000))>>,
                            !.margin_level = Num(300)]

Bodies ==
    { Healthy,
      [Healthy EXCEPT !.margin_level = Num(100)],
      [Healthy EXCEPT !.margin_level = Num(200), !.last_update = Str("client"),
                      !.currency = Str("UsC")],
      [Healthy EXCEPT !.margin_level = Num(0)],
      [Healthy EXCEPT !.margin_level = Null],
      [Healthy EXCEPT !.margin_level = Num(100), !.equity = Null],
      [Healthy EXCEPT !.balance = Num(0)],
      [Healthy EXCEPT !.balance = Missing],
      [Healthy EXCEPT !.balance = Null],
      [Healthy EXCEPT !.currency = Str("USC"), !.margin_level = Num(100),
                      !.free_margin = Missing,
                      !.baskets = <<Basket(Num(260), Missing, Num(260))>>],
      [Healthy EXCEPT !.currency = Str("USC"), !.balance = Num(40)],
      [Healthy EXCEPT !.currency = Str("USC"), !.equity = Str("n/a")],
      [Healthy EXCEPT !.account_id = Missing, !.margin_level = Num(100),
                      !.currency = Missing],
      NoRecord }

----------------------------------------------------------------------------
(* POST /report *)

IdleReport == [pc |-> "idle", id |-> "", data |-> NoRecord]

Respond(op, status) == resp' = [op |-> op, status |-> status]

\* str(data.get("account_id", "unknown"))
AccountId(data) == Get(data.account_id, Str("unknown")).s

\* balance <= 0 on data.get("balance", 0); TypeError unless a number
BalanceRaises(data) == ~IsNum(Get(data.balance, Num(0)))

\* the gate written as balance < 0
ZeroBalance_Strict(data) == Get(data.balance, Num(0)).n < 0

ZeroBalance(data) == Get(data.balance, Num(0)).n <= 0

\* the request goes to a free handler thread (the first one, the threads
\* being interchangeable)
FreeThread(hs, h) ==
    /\ hs[h].pc = "idle"
    /\ \A g \in DOMAIN hs : g < h => hs[g].pc # "idle"

\* lines 142-157: authentication, parsing, the zero-balance gate, the stamp.
\* now is what datetime.now() returns: the clock never runs backwards.
ReportRecv(h, key, data, now) ==
    /\ FreeThread(rh, h)
    /\ quota > 0
    /\ quota' = quota - 1
    /\ now >= clock
    /\ IF ~key
       THEN Respond("report", "unauthorized") /\ UNCHANGED <<rh, clock>>
       ELSE IF data = NoRecord
       THEN Respond("report", "invalid json") /\ UNCHANGED <<rh, clock>>
       ELSE IF BalanceRaises(data)
       THEN Respond("report", "error") /\ UNCHANGED <<rh, clock>>
       ELSE IF ZeroBalance(data)
       THEN Respond("report", "skipped") /\ UNCHANGED <<rh, clock>>
       ELSE /\ rh' = [rh EXCEPT ![h] =
                        [pc |-> "store", id |-> AccountId(data),
                         data |-> [data EXCEPT !.last_update = Strftime(now)]]]
            /\ clock' = now
            /\ UNCHANGED resp
    /\ UNCHANGED <<accounts, keys, alerted, mpc, mkeys, macc, mtier, dh,
                   sent, outcome, gh, listing, depleted, ev>>

\* the handler publishes the stamped dictionary before it is converted
ReportStore_BeforeNormalize(h) ==
    /\ rh[h].pc = "store"
    /\ accounts' = Put(accounts, rh[h].id, rh[h].data)
    /\ keys' = PutKey(keys, rh[h].id)
    /\ depleted' = depleted \ {rh[h].id}
    /\ Respond("report", "ok")
    /\ rh' = [rh EXCEPT ![h] = IdleReport]
    /\ UNCHANGED <<alerted, clock, mpc, mkeys, macc, mtier, dh, quota,
                   sent, outcome, gh, listing, ev>>

\* lines 158-161: normalize, store, answer
ReportStore(h) ==
    /\ rh[h].pc = "store"
    /\ IF NormalizeRaises(rh[h].data)
       THEN /\ Respond("report", "error")
            /\ UNCHANGED <<accounts, keys, depleted>>
       ELSE /\ accounts' = Put(accounts, rh[h].id, normalize_account(rh[h].data))
            /\ keys' = PutKey(keys, rh[h].id)
            /\ depleted' = depleted \ {rh[h].id}
            /\ Respond("report", "ok")
    /\ rh' = [rh EXCEPT ![h] = IdleReport]
    /\ UNCHANGED <<alerted, clock, mpc, mkeys, macc, mtier, dh, quota,
                   sent, outcome, gh, listing, ev>>

----------------------------------------------------------------------------
(* GET /accounts *)

IdleGet == [pc |-> "idle", count |-> 0]

\* lines 169-174: authentication, then len(accounts)
GetRecv(key) ==
    /\ gh.pc = "idle"
    /\ quota > 0
    /\ quota' = quota - 1
    /\ IF ~key
       THEN Respond("accounts", "unauthorized") /\ UNCHANGED gh
       ELSE /\ gh' = [pc |-> "values", count |-> Len(keys)]
            /\ UNCHANGED resp
    /\ UNCHANGED <<accounts, keys, alerted, clock, mpc, mkeys, macc, mtier,
                   rh, dh, sent, outcome, listing, depleted, ev>>

\* lines 173-176: list(accounts.values()), then the answer
GetValues ==
    /\ gh.pc = "values"
    /\ listing' = [count |-> gh.count,
                   accounts |-> [i \in 1 .. Len(keys) |-> accounts[keys[i]]]]
    /\ Respond("accounts", "ok")
    /\ gh' = IdleGet
    /\ UNCHANGED <<accounts, keys, alerted, clock, mpc, mkeys, macc, mtier,
                   rh, dh, quota, sent, outcome, depleted, ev>>

----------------------------------------------------------------------------
(* GET /health *)

\* lines 198-205: no authentication; len(accounts) and the clock are read
\* and the answer shows nothing else
Health ==
    /\ quota > 0
    /\ quota' = quota - 1
    /\ Respond("health", "online")
    /\ UNCHANGED <<accounts, keys, alerted, clock, mpc, mkeys, macc, mtier,
                   rh, dh, sent, outcome, gh, listing, depleted, ev>>

----------------------------------------------------------------------------
(* DELETE /account/<id> *)

IdleDelete == [pc |-> "idle", id |-> ""]

\* a pop of DELETE or of the auto-cleanup touched id
Removed(id) == sent' = [sent EXCEPT ![id].removed = TRUE]

\* lines 184-188 and 192: authentication and the membership test
DeleteRecv(h, key, id) ==
    /\ FreeThread(dh, h)
    /\ quota > 0
    /\ quota' = quota - 1
    /\ IF ~key
       THEN Respond("delete", "unauthorized") /\ UNCHANGED dh
       ELSE IF ~Has(accounts, id)
       THEN Respond("delete", "not found") /\ UNCHANGED dh
       ELSE /\ dh' = [dh EXCEPT ![h] = [pc |-> "popacc", id |-> id]]
            /\ UNCHANGED resp
    /\ UNCHANGED <<accounts, keys, alerted, clock, mpc, mkeys, macc, mtier,
                   rh, sent, outcome, gh, listing, depleted, ev>>

\* line 189: accounts.pop(account_id) raises KeyError when the key is gone
DeletePopAccount(h) ==
    /\ dh[h].pc = "popacc"
    /\ IF Has(accounts, dh[h].id)
       THEN /\ accounts' = Pop(accounts, dh[h].id)
            /\ keys' = PopKey(keys, dh[h].id)
            /\ Removed(dh[h].id)
            /\ dh' = [dh EXCEPT ![h].pc = "popalert"]
            /\ UNCHANGED resp
       ELSE /\ Respond("delete", "error")
            /\ dh' = [dh EXCEPT ![h] = IdleDelete]
            /\ UNCHANGED <<accounts, keys, sent>>
    /\ UNCHANGED <<alerted, clock, mpc, mkeys, macc, mtier, rh, quota,
                   outcome, gh, listing, depleted, ev>>

\* the handler answers without alerted.pop(account_id, None)
DeletePopAlerted_KeepsAlert(h) ==
    /\ dh[h].pc = "popalert"
    /\ Respond("delete", "deleted")
    /\ dh' = [dh EXCEPT ![h] = IdleDelete]
    /\ UNCHANGED <<accounts, keys, alerted, clock, mpc, mkeys, macc, mtier, rh,
                   quota, sent, outcome, gh, listing, depleted, ev>>

\* lines 190-191: alerted.pop(account_id, None), then the answer
DeletePopAlerted(h) ==
    /\ dh[h].pc = "popalert"
    /\ alerted' = Pop(alerted, dh[h].id)
    /\ Removed(dh[h].id)
    /\ Respond("delete", "deleted")
    /\ dh' = [dh EXCEPT ![h] = IdleDelete]
    /\ UNCHANGED <<accounts, keys, clock, mpc, mkeys, macc, mtier, rh,
                   quota, outcome, gh, listing, depleted, ev>>

----------------------------------------------------------------------------
(* BACKGROUND THREAD: alerts + cleanup *)

\* the chain with the first test written as ml < 0
evaluate_ZeroIsDanger(ml, danger, warn) ==
    IF ml < 0 THEN "unknown"
    ELSE IF ml < danger THEN "danger"
    ELSE IF ml < warn THEN "warn"
    ELSE "ok"

\* the chain with the tests written as ml <= danger and ml <= warn
evaluate_Inclusive(ml, danger, warn) ==
    IF ml <= 0 THEN "unknown"
    ELSE IF ml <= danger THEN "danger"
    ELSE IF ml <= warn THEN "warn"
    ELSE "ok"

\* the if / elif / else chain of lines 102-126 on a numeric margin level,
\* for the thresholds the process read from its environment
evaluate(ml, danger, warn) ==
    IF ml <= 0 THEN "unknown"
    ELSE IF ml < danger THEN "danger"
    ELSE IF ml < warn THEN "warn"
    ELSE "ok"

\* the chain under the default thresholds
Tier(ml) == evaluate(ml, DANGER_ML, WARN_ML)

\* the recovery branch tests for "not ok" instead of "danger or warn"
ShouldNotify_RecoverFromNone(tier, state) ==
    IF tier = "danger" THEN state # "danger"
    ELSE IF tier = "warn" THEN state # "warn"
    ELSE state # "ok"

\* the test on alerted.get(acc_id) that guards each branch
ShouldNotify(tier, state) ==
    IF tier = "danger" THEN state # "danger"
    ELSE IF tier = "warn" THEN state # "warn"
    ELSE state \in {"danger", "warn"}

\* the message each branch sends
Message(tier) == IF tier = "ok" THEN "recovery" ELSE tier

\* f"{eq:.2f}" in the danger and warning messages raises unless eq is a
\* number; the recovery message formats ml only, which was compared already
FormatRaises(tier, acc) ==
    /\ tier \in {"danger", "warn"}
    /\ ~IsNum(Get(acc.equity, Num(0)))

\* how a send_telegram call can end: it returns at once when the credentials
\* are absent; urlopen succeeds; or urlopen raises (a timeout included) and
\* the exception is caught and printed.  It returns None in every case.  The
\* credentials are read once at start-up, so the first call settles whether
\* later calls can reach urlopen.
Outcomes ==
    IF outcome = "none" THEN {"disabled", "sent", "failed"}
    ELSE IF outcome = "disabled" THEN {"disabled"}
    ELSE {"sent", "failed"}

\* lines 88-89 on a stored record: balance <= 0
Depleted(acc) ==
    /\ IsNum(Get(acc.balance, Num(0)))
    /\ Get(acc.balance, Num(0)).n <= 0

\* the exception leaves background_tasks: the thread is gone
Crash ==
    /\ mpc' = "crashed"
    /\ mkeys' = <<>>
    /\ macc' = NoRecord
    /\ mtier' = "none"
    /\ depleted' = {}

\* continue: the next id of the snapshot, or back to time.sleep(60)
Continue ==
    /\ mkeys' = Tail(mkeys)
    /\ macc' = NoRecord
    /\ mtier' = "none"
    /\ mpc' = IF Tail(mkeys) = <<>> THEN "sleep" ELSE "fetch"
    /\ depleted' = IF Tail(mkeys) = <<>> THEN {} ELSE depleted

\* line 82: list(accounts.keys())
MonitorWake ==
    /\ mpc = "sleep"
    /\ mkeys' = keys
    /\ mpc' = IF keys = <<>> THEN "sleep" ELSE "fetch"
    /\ depleted' = {id \in DOMAIN accounts : Depleted(accounts[id])}
    /\ UNCHANGED <<accounts, keys, alerted, clock, macc, mtier, rh, dh, quota,
                   resp, sent, outcome, gh, listing, ev>>

\* the loop without the AUTO CLEANUP block of lines 87-93
MonitorFetch_NoCleanup ==
    /\ mpc = "fetch"
    /\ LET acc_id == Head(mkeys)
           acc == IF Has(accounts, acc_id) THEN accounts[acc_id] ELSE NoRecord
           ml == Get(acc.margin_level, Num(0))
       IN  IF acc = NoRecord THEN Continue
           ELSE IF ~IsNum(ml) THEN Crash
           ELSE IF Tier(ml.n) = "unknown" THEN Continue
           ELSE /\ mpc' = "read"
                /\ macc' = acc
                /\ mtier' = Tier(ml.n)
                /\ UNCHANGED <<mkeys, depleted>>
    /\ UNCHANGED <<accounts, keys, alerted, clock, rh, dh, quota, resp,
                   sent, outcome, gh, listing, ev>>

\* lines 83-105, 116, 126: fetch the live record and pick the branch
MonitorFetch ==
    /\ mpc = "fetch"
    /\ LET acc_id == Head(mkeys)
           acc == IF Has(accounts, acc_id) THEN accounts[acc_id] ELSE NoRecord
           balance == Get(acc.balance, Num(0))
           ml == Get(acc.margin_level, Num(0))
       IN  IF acc = NoRecord THEN Continue
           ELSE IF ~IsNum(balance) THEN Crash
           ELSE IF balance.n <= 0
           THEN /\ mpc' = "popacc"
                /\ macc' = acc
                /\ UNCHANGED <<mkeys, mtier, depleted>>
           ELSE IF ~IsNum(ml) THEN Crash
           ELSE IF Tier(ml.n) = "unknown" THEN Continue
           ELSE /\ mpc' = "read"
                /\ macc' = acc
                /\ mtier' = Tier(ml.n)
                /\ UNCHANGED <<mkeys, depleted>>
    /\ UNCHANGED <<accounts, keys, alerted, clock, rh, dh, quota, resp,
                   sent, outcome, gh, listing, ev>>

\* line 91: accounts.pop(acc_id, None)
MonitorPopAccount ==
    /\ mpc = "popacc"
    /\ accounts' = Pop(accounts, Head(mkeys))
    /\ keys' = PopKey(keys, Head(mkeys))
    /\ Removed(Head(mkeys))
    /\ mpc' = "popalert"
    /\ UNCHANGED <<alerted, clock, mkeys, macc, mtier, rh, dh, quota,
                   resp, outcome, gh, listing, depleted, ev>>

\* lines 92-93: alerted.pop(acc_id, None); continue
MonitorPopAlerted ==
    /\ mpc = "popalert"
    /\ alerted' = Pop(alerted, Head(mkeys))
    /\ Removed(Head(mkeys))
    /\ Continue
    /\ UNCHANGED <<accounts, keys, clock, rh, dh, quota, resp, outcome,
                   gh, listing, ev>>

\* lines 106, 117, 127: the test on alerted.get(acc_id)
MonitorRead ==
    /\ mpc = "read"
    /\ IF ShouldNotify(mtier, AlertedGet(Head(mkeys)))
       THEN /\ mpc' = "write"
            /\ UNCHANGED <<mkeys, macc, mtier, depleted>>
       ELSE Continue
    /\ UNCHANGED <<accounts, keys, alerted, clock, rh, dh, quota, resp,
                   sent, outcome, gh, listing, ev>>

\* lines 107, 118, 128: alerted[acc_id] = tier, then the message is built
MonitorWrite ==
    /\ mpc = "write"
    /\ alerted' = Put(alerted, Head(mkeys), mtier)
    /\ IF FormatRaises(mtier, macc)
       THEN Crash
       ELSE /\ mpc' = "send"
            /\ UNCHANGED <<mkeys, macc, mtier, depleted>>
    /\ UNCHANGED <<accounts, keys, clock, rh, dh, quota, resp, sent, outcome,
                   gh, listing, ev>>

\* lines 108, 119, 129 and send_telegram (61-73)
MonitorSend ==
    /\ mpc = "send"
    /\ \E o \in Outcomes : outcome' = o
    /\ sent' = [sent EXCEPT ![Head(mkeys)] =
                    [msg |-> Message(mtier), removed |-> FALSE]]
    /\ Continue
    /\ UNCHANGED <<accounts, keys, alerted, clock, rh, dh, quota, resp,
                   gh, listing, ev>>

----------------------------------------------------------------------------
(* The server *)

\* the state after the module is loaded, with n requests to come
Start(n) ==
    /\ accounts = <<>>
    /\ keys = <<>>
    /\ alerted = <<>>
    /\ clock = 0
    /\ mpc = "sleep"
    /\ mkeys = <<>>
    /\ macc = NoRecord
    /\ mtier = "none"
    /\ rh = [h \in ReportThreads |-> IdleReport]
    /\ dh = [h \in DeleteThreads |-> IdleDelete]
    /\ quota = n
    /\ resp = [op |-> "none", status |-> "none"]
    /\ sent = [id \in Ids |-> [msg |-> "none", removed |-> FALSE]]
    /\ outcome = "none"
    /\ gh = IdleGet
    /\ listing = [count |-> 0, accounts |-> <<>>]
    /\ depleted = {}

\* no call of the tier chain on its own
NoCall == [ml |-> 0, danger |-> 0, warn |-> 0, tier |-> "none"]

Init == Start(MaxRequests) /\ ev = NoCall

Next ==
    \/ \E h \in ReportThreads, key \in BOOLEAN, data \in Bodies,
          now \in Seconds :
          ReportRecv(h, key, data, now)
    \/ \E h \in ReportThreads : ReportStore(h)
    \/ \E key \in BOOLEAN : GetRecv(key)
    \/ GetValues
    \/ Health
    \/ \E h \in DeleteThreads, key \in BOOLEAN, id \in Ids :
          DeleteRecv(h, key, id)
    \/ \E h \in DeleteThreads : DeletePopAccount(h)
    \/ \E h \in DeleteThreads : DeletePopAlerted(h)
    \/ MonitorWake
    \/ MonitorFetch
    \/ MonitorPopAccount
    \/ MonitorPopAlerted
    \/ MonitorRead
    \/ MonitorWrite
    \/ MonitorSend

Spec == Init /\ [][Next]_vars

\* the same server with one more request to come
InitLonger == Start(MaxRequests + 1) /\ ev = NoCall

SpecLonger == InitLonger /\ [][Next]_vars

----------------------------------------------------------------------------
(* The tier chain on its own: the process was started with thresholds     *)
(* danger < warn in its environment, and the chain runs on one margin     *)
(* level.                                                                  *)

InitEvaluate ==
    /\ Start(0)
    /\ ev \in {c \in [ml : MarginLevels, danger : Thresholds,
                       warn : Thresholds, tier : {"none"}] :
                  c.danger < c.warn}

EvaluateCall ==
    /\ ev.tier = "none"
    /\ ev' = [ev EXCEPT !.tier = evaluate(ev.ml, ev.danger, ev.warn)]
    /\ UNCHANGED <<accounts, keys, alerted, clock, mpc, mkeys, macc, mtier,
                   rh, dh, quota, resp, sent, outcome, gh, listing,
                   depleted>>

NextEvaluate == EvaluateCall

SpecEvaluate == InitEvaluate /\ [][NextEvaluate]_vars

----------------------------------------------------------------------------
(* Steps of the monitor thread, as seen from outside *)

\* the monitor thread calls send_telegram with message msg about id
Sends(id, msg) ==
    /\ mpc = "send"
    /\ mpc' # "send"
    /\ Head(mkeys) = id
    /\ Message(mtier) = msg

\* the monitor thread tests alerted.get(id) in the branch of tier
Tests(id, tier) ==
    /\ mpc = "read"
    /\ mpc' # "read"
    /\ Head(mkeys) = id
    /\ mtier = tier

\* the monitor thread executes alerted[id] = tier
Writes(id, tier) ==
    /\ mpc = "write"
    /\ mpc' # "write"
    /\ Head(mkeys) = id
    /\ mtier = tier

\* the monitor thread takes its turn with id: lines 83-105 on the record
\* it fetches
Examines(id) ==
    /\ mpc = "fetch"
    /\ Head(mkeys) = id
    /\ (mpc' # "fetch" \/ mkeys' # mkeys)

\* no monitor step and no request handler is in the middle of its work
Quiescent ==
    /\ mpc = "sleep"
    /\ \A h \in ReportThreads : rh[h].pc = "idle"
    /\ \A h \in DeleteThreads : dh[h].pc = "idle"

\* the dictionaries d and e agree on every key but k
SameExcept(d, e, k) ==
    \A x \in Ids \ {k} :
        /\ Has(d, x) <=> Has(e, x)
        /\ Has(d, x) => d[x] = e[x]

----------------------------------------------------------------------------
(* C1: alert de-duplication *)

\* C1: between any two danger notifications sent for an id there is a warn
\* or recovery notification for that id, or a removal of the account (a pop
\* by DELETE or by the auto-cleanup).
C1_Deduplicated ==
    [][\A id \in Ids :
          Sends(id, "danger") =>
              ~(sent[id].msg = "danger" /\ ~sent[id].removed)]_vars

\* C1, "in particular": an account whose tier is evaluated as danger while
\* its alert state is not danger gets its danger notification: the write of
\* alerted[id] = "danger" is followed by the send.
C1_FirstDangerIsSent ==
    [][\A id \in Ids : Writes(id, "danger") => mpc' = "send"]_vars

----------------------------------------------------------------------------
(* C2: recovery notification *)

\* C2: in the ok branch the monitor sets the alert state to ok and sends a
\* recovery message if and only if the stored state is warn or danger, and
\* otherwise sends nothing and leaves alerted alone; so every recovery
\* message follows a warn or danger message for the same id.
C2_Recovery ==
    [][\A id \in Ids :
          /\ Tests(id, "ok") =>
                 /\ alerted' = alerted
                 /\ sent' = sent
                 /\ IF AlertedGet(id) \in {"warn", "danger"}
                    THEN mpc' = "write"
                    ELSE mpc' \in {"sleep", "fetch"}
          /\ Writes(id, "ok") =>
                 /\ alerted' = Put(alerted, id, "ok")
                 /\ mpc' = "send"
          /\ Sends(id, "recovery") =>
                 /\ sent[id].msg \in {"warn", "danger"}
                 /\ sent'[id].msg = "recovery"
                 /\ alerted' = alerted]_vars

C2_Witness ==
    /\ Has(alerted, "7001")
    /\ alerted["7001"] = "ok"
    /\ sent["7001"] = [msg |-> "recovery", removed |-> FALSE]
    /\ mpc = "sleep"

----------------------------------------------------------------------------
(* C3: the monitor loop survives every record and every notifier outcome *)

\* C3: the monitor thread never terminates.
C3_MonitorNeverTerminates == mpc # "crashed"

----------------------------------------------------------------------------
(* C4: store invariant *)

\* C4: every record held in accounts has balance > 0.
C4_PositiveBalance ==
    \A id \in DOMAIN accounts :
        IsNum(accounts[id].balance) /\ accounts[id].balance.n > 0

----------------------------------------------------------------------------
(* C5: alert state lives and dies with its record *)

\* C5: when nothing is mid-operation, every id of alerted is an id of
\* accounts.
C5_AlertedHasRecord == Quiescent => DOMAIN alerted \subseteq DOMAIN accounts

----------------------------------------------------------------------------
(* C6: cleanup against concurrent ingest *)

\* C6: the record the monitor's cleanup removes from accounts has
\* balance <= 0 at the moment of the removal.
C6_CleanupRemovesOnlyDepleted ==
    [][(mpc = "popacc" /\ mpc' = "popalert" /\ Has(accounts, Head(mkeys)))
          => accounts[Head(mkeys)].balance.n <= 0]_vars

----------------------------------------------------------------------------
(* C7: last_update *)

\* C7: the last_update of the record stored for an id is the server's
\* stamp and never decreases from one store write to the next.
C7_LastUpdateMonotone ==
    [][\A id \in Ids :
          /\ Has(accounts', id) => accounts'[id].last_update.t = "time"
          /\ (Has(accounts, id) /\ Has(accounts', id)) =>
                 accounts'[id].last_update.n >= accounts[id].last_update.n]_vars

----------------------------------------------------------------------------
(* C8: DELETE /account/<id> *)

\* C8: a DELETE for an absent id answers not found and changes neither
\* dictionary; for a present id it removes the record, then the alert
\* entry, each time leaving every other id as it was, and answers deleted.
C8_Delete ==
    [][\A h \in DeleteThreads :
          /\ \A id \in Ids :
                 (DeleteRecv(h, TRUE, id) /\ ~Has(accounts, id)) =>
                     /\ resp' = [op |-> "delete", status |-> "not found"]
                     /\ accounts' = accounts
                     /\ alerted' = alerted
                     /\ dh' = dh
          /\ \A id \in Ids :
                 (DeleteRecv(h, TRUE, id) /\ Has(accounts, id)) =>
                     /\ dh'[h] = [pc |-> "popacc", id |-> id]
                     /\ accounts' = accounts
                     /\ alerted' = alerted
          /\ (dh[h].pc = "popacc" /\ dh'[h].pc # "popacc") =>
                 /\ ~Has(accounts', dh[h].id)
                 /\ SameExcept(accounts, accounts', dh[h].id)
                 /\ alerted' = alerted
          /\ (dh[h].pc = "popalert" /\ dh'[h].pc # "popalert") =>
                 /\ resp' = [op |-> "delete", status |-> "deleted"]
                 /\ ~Has(alerted', dh[h].id)
                 /\ SameExcept(alerted, alerted', dh[h].id)
                 /\ accounts' = accounts]_vars

C8_Witness ==
    /\ resp = [op |-> "delete", status |-> "deleted"]
    /\ sent["7001"] = [msg |-> "danger", removed |-> TRUE]
    /\ ~Has(accounts, "7001")
    /\ ~Has(alerted, "7001")
    /\ Quiescent

----------------------------------------------------------------------------
(* C9: DELETE racing with another removal *)

\* C9: every DELETE ends as deleted or not found (or unauthorized), never
\* with an unhandled error.
C9_DeleteNeverFails == resp # [op |-> "delete", status |-> "error"]

----------------------------------------------------------------------------
(* C10: POST /report with balance <= 0 *)

\* C10: a report with a valid key whose balance is absent or <= 0 is
\* answered skipped and leaves accounts and alerted as they were.
C10_Skipped ==
    [][\A h \in ReportThreads, data \in Bodies \ {NoRecord}, now \in Seconds :
          ( /\ ReportRecv(h, TRUE, data, now)
            /\ \/ data.balance = Missing
               \/ IsNum(data.balance) /\ data.balance.n <= 0 ) =>
              /\ resp' = [op |-> "report", status |-> "skipped"]
              /\ accounts' = accounts
              /\ keys' = keys
              /\ alerted' = alerted
              /\ rh' = rh]_vars

C10_Witness ==
    /\ resp = [op |-> "report", status |-> "skipped"]
    /\ Has(accounts, "7001")
    /\ accounts["7001"].balance = Num(10000)
    /\ quota = 0

----------------------------------------------------------------------------
(* C11: the unknown tier *)

\* C11: when the monitor examines an account with balance > 0 whose
\* margin_level is <= 0 (or absent), it goes on to the next id without a
\* notification and leaves the record and the alert state as they were,
\* whatever the alert state is.
C11_UnknownIsSkipped ==
    [][\A id \in Ids :
          ( /\ Examines(id)
            /\ Has(accounts, id)
            /\ IsNum(accounts[id].balance)
            /\ accounts[id].balance.n > 0
            /\ IsNum(Get(accounts[id].margin_level, Num(0)))
            /\ Get(accounts[id].margin_level, Num(0)).n <= 0 ) =>
              /\ mpc' \in {"sleep", "fetch"}
              /\ mkeys' = Tail(mkeys)
              /\ accounts' = accounts
              /\ alerted' = alerted
              /\ sent' = sent
              /\ outcome' = outcome]_vars

\* the monitor has passed 7001, whose margin level is 0, without a write
\* or a message, and is about to examine the next id of its snapshot
C11_Witness ==
    /\ mpc = "fetch"
    /\ mkeys = <<"unknown">>
    /\ keys = <<"7001", "unknown">>
    /\ accounts["7001"].balance = Num(10000)
    /\ accounts["7001"].margin_level = Num(0)
    /\ AlertedGet("7001") = "none"
    /\ sent["7001"].msg = "none"
    /\ quota = 0

----------------------------------------------------------------------------
(* C12: auto-cleanup *)

\* C12: an id whose record had balance <= 0 when the cycle took its
\* snapshot, and for which no report was stored during the cycle, is in
\* neither accounts nor alerted when the cycle ends.
C12_CleanedAtCycleEnd ==
    [][(mpc # "sleep" /\ mpc' = "sleep") =>
          \A id \in depleted : ~Has(accounts', id) /\ ~Has(alerted', id)]_vars

\* C12, second half: no alert test, alert write or notification happens in
\* the cycle for such an id.
C12_NeverEvaluated ==
    \A id \in depleted :
        ~(mpc \in {"read", "write", "send"} /\ Head(mkeys) = id)

----------------------------------------------------------------------------
(* C13: cleanup and evaluation within one cycle *)

----------------------------------------------------------------------------
(* C14: no torn reads *)

\* rec is the dictionary one POST /report built: a body with the server's
\* stamp, converted by normalize_account
FullyFormed(rec) ==
    /\ rec.last_update.t = "time"
    /\ rec.is_cent.t = "bool"
    /\ rec.currency_display.t = "str"
    /\ \E data \in Bodies \ {NoRecord}, now \in Seconds :
           /\ ~NormalizeRaises(data)
           /\ rec = normalize_account(
                        [data EXCEPT !.last_update = Strftime(now)])

\* C14: every record in the store, every record a GET /accounts returned
\* and the record the monitor holds is the fully stamped and normalized
\* dictionary of one POST /report, whatever the handlers of POST /report
\* are in the middle of.
C14_NoTornRead ==
    /\ \A id \in DOMAIN accounts : FullyFormed(accounts[id])
    /\ \A i \in 1 .. Len(listing.accounts) : FullyFormed(listing.accounts[i])
    /\ macc # NoRecord => FullyFormed(macc)

\* the monitor holds the converted cent record of 7001, fetched while a
\* handler of POST /report holds a stamped, unconverted dictionary for 7001
C14_Witness ==
    /\ mpc = "read"
    /\ Head(mkeys) = "7001"
    /\ macc.is_cent = Bool(TRUE)
    /\ macc.balance = Num(100)
    /\ macc.baskets = <<Basket(Num(3), Num(0), Num(3))>>
    /\ macc.last_update = Time(0)
    /\ \E h \in ReportThreads :
           /\ rh[h].pc = "store"
           /\ rh[h].id = "7001"
           /\ rh[h].data.last_update = Time(1)
           /\ rh[h].data.is_cent = Missing

----------------------------------------------------------------------------
(* C15: tier classification *)

\* the tier the specification assigns, case by case
ReferenceTier(ml, danger, warn) ==
    CASE ml <= 0 -> "unknown"
      [] ml > 0 /\ ml < danger -> "danger"
      [] ml >= danger /\ ml < warn -> "warn"
      [] ml >= warn -> "ok"

\* C15: for every margin level and every pair of thresholds danger < warn,
\* the chain the monitor uses yields unknown for ml <= 0, danger for
\* 0 < ml < danger, warn for danger <= ml < warn and ok for ml >= warn.
C15_TierIsReference ==
    ev.tier # "none" => ev.tier = ReferenceTier(ev.ml, ev.danger, ev.warn)

\* the two boundaries: a margin level equal to danger is warn; the case
\* equal to warn is ok
C15_Witness ==
    /\ ev.ml = ev.danger
    /\ ev.tier = "warn"

----------------------------------------------------------------------------
(* C16: normalization at ingest *)

\* the handler h of POST /report stores the record rec for id
Stores(h, id) ==
    /\ rh[h].pc = "store"
    /\ rh'[h].pc = "idle"
    /\ rh[h].id = id
    /\ resp' = [op |-> "report", status |-> "ok"]

\* the record stored for id is new or has changed
Rewritten(id) ==
    /\ Has(accounts', id)
    /\ ~Has(accounts, id) \/ accounts'[id] # accounts[id]

CentCode(raw) == raw.currency.t = "str" /\ raw.currency.s \in CENT_CURRENCIES

\* what is neither an amount nor derived is stored as it was reported
SameElsewhere(raw, rec) ==
    /\ rec.account_id = raw.account_id
    /\ rec.currency = raw.currency
    /\ rec.margin_level = raw.margin_level
    /\ rec.last_update = raw.last_update
    /\ Len(rec.baskets) = Len(raw.baskets)

\* C16, as claimed: every write of a stored record is the store of one
\* report; is_cent tells whether the currency is one of the cent codes; a
\* cent record holds every amount divided by 100 exactly (an absent amount
\* as 0), and any other record holds the reported amounts and the reported
\* currency as currency_display.
C16_ExactDivision ==
    [][\A id \in Ids : Rewritten(id) =>
          \E h \in ReportThreads :
              LET raw == rh[h].data
                  rec == accounts'[id]
              IN  /\ Stores(h, id)
                  /\ SameElsewhere(raw, rec)
                  /\ rec.is_cent = Bool(CentCode(raw))
                  /\ IF CentCode(raw)
                     THEN /\ \A f \in MoneyFields :
                                 /\ IsNum(rec[f])
                                 /\ 100 * rec[f].n = Get(raw[f], Num(0)).n
                          /\ \A i \in 1 .. Len(raw.baskets), g \in BasketFields :
                                 /\ IsNum(rec.baskets[i][g])
                                 /\ 100 * rec.baskets[i][g].n =
                                        Get(raw.baskets[i][g], Num(0)).n
                     ELSE /\ \A f \in MoneyFields : rec[f] = raw[f]
                          /\ rec.baskets = raw.baskets
                          /\ rec.currency_display = raw.currency]_vars

\* C16, amended: the same, with every amount of a cent record divided by
\* 100 and rounded to 2 decimals, once, and with currency_display "USD"
\* where the report names no currency.
C16_RoundedDivision ==
    [][\A id \in Ids : Rewritten(id) =>
          \E h \in ReportThreads :
              LET raw == rh[h].data
                  rec == accounts'[id]
              IN  /\ Stores(h, id)
                  /\ SameElsewhere(raw, rec)
                  /\ rec.is_cent = Bool(CentCode(raw))
                  /\ IF CentCode(raw)
                     THEN /\ \A f \in MoneyFields :
                                 rec[f] =
                                     Num(Div100Round2(Get(raw[f], Num(0)).n))
                          /\ \A i \in 1 .. Len(raw.baskets), g \in BasketFields :
                                 rec.baskets[i][g] =
                                     Num(Div100Round2(
                                             Get(raw.baskets[i][g], Num(0)).n))
                          /\ rec.currency_display = Str("USD (c)")
                     ELSE /\ \A f \in MoneyFields : rec[f] = raw[f]
                          /\ rec.baskets = raw.baskets
                          /\ rec.currency_display =
                                 Get(raw.currency, Str("USD"))]_vars

\* the cent report of 7001 (balance 100.00, a basket with buy_profit 2.60
\* and no sell_profit) is stored as 1.00 and 0.03, 0.00; a GET /accounts
\* has listed it and a monitor cycle has sent its danger message
C16_Witness ==
    /\ Has(accounts, "7001")
    /\ accounts["7001"].is_cent = Bool(TRUE)
    /\ accounts["7001"].balance = Num(100)
    /\ accounts["7001"].free_margin = Num(0)
    /\ accounts["7001"].floating = Num(-10)
    /\ accounts["7001"].baskets = <<Basket(Num(3), Num(0), Num(3))>>
    /\ listing.accounts = <<accounts["7001"]>>
    /\ sent["7001"].msg = "danger"
    /\ mpc = "sleep"

----------------------------------------------------------------------------
(* C17: escalation to warn and to danger *)

\* C17: in the danger branch and in the warn branch the monitor writes
\* the tier into alerted and then sends the message of that tier exactly
\* when alerted.get(id) differs from the tier; when it equals the tier the
\* monitor goes on to the next id with alerted and the messages untouched.
\* A turn sends at most one message.
C17_Escalation ==
    [][\A id \in Ids, T \in {"danger", "warn"} :
          /\ Tests(id, T) =>
                 /\ alerted' = alerted
                 /\ sent' = sent
                 /\ IF AlertedGet(id) # T
                    THEN mpc' = "write"
                    ELSE mpc' \in {"sleep", "fetch"} /\ mkeys' = Tail(mkeys)
          /\ Writes(id, T) =>
                 /\ alerted' = Put(alerted, id, T)
                 /\ mpc' = "send"
          /\ Sends(id, T) =>
                 /\ sent'[id].msg = T
                 /\ alerted' = alerted
                 /\ mpc' \in {"sleep", "fetch"}
                 /\ mkeys' = Tail(mkeys)]_vars

----------------------------------------------------------------------------
(* C18: snapshot of the ids, live records *)

\* C18: a cycle starts with the list of the ids that are in accounts at
\* that moment and gives each of them one turn, in order, before it ends:
\* no id joins the list during the cycle.  An id whose record is gone at
\* its turn is passed over without a write to alerted and without a
\* message.  The cleanup test and the tier are taken from the record that
\* is in accounts at the turn.
C18_SnapshotIteration ==
    [][/\ (mpc = "sleep" /\ mpc' # "sleep") =>
              /\ mkeys' = keys
              /\ {keys[i] : i \in 1 .. Len(keys)} = DOMAIN accounts
       /\ mpc \notin {"sleep", "crashed"} =>
              /\ mkeys' = mkeys \/ mkeys' = Tail(mkeys) \/ mpc' = "crashed"
              /\ mpc' \in {"sleep", "crashed"} => Tail(mkeys) = <<>>
       /\ \A id \in Ids :
              /\ (Examines(id) /\ ~Has(accounts, id)) =>
                     /\ alerted' = alerted
                     /\ sent' = sent
                     /\ mkeys' = Tail(mkeys)
                     /\ mpc' \in {"sleep", "fetch"}
              /\ (Examines(id) /\ mpc' = "popacc") =>
                     /\ Has(accounts, id)
                     /\ Depleted(accounts[id])
                     /\ macc' = accounts[id]
              /\ (Examines(id) /\ mpc' = "read") =>
                     /\ Has(accounts, id)
                     /\ ~Depleted(accounts[id])
                     /\ macc' = accounts[id]
                     /\ mtier' = Tier(accounts[id].margin_level.n)]_vars

----------------------------------------------------------------------------
(* C19: failed notifications *)

\* the last call of send_telegram was for id, with message msg, and did
\* not deliver it (urlopen raised, or the credentials are absent); id was
\* not removed since
FailedLast(id, msg) ==
    /\ sent[id] = [msg |-> msg, removed |-> FALSE]
    /\ outcome \in {"failed", "disabled"}
    /\ \A x \in Ids \ {id} : sent[x].msg = "none"

\* C19: whatever the outcome of send_telegram, the call returns into the
\* loop, which goes on to the next id, and alerted keeps the tier written
\* before the call; a message whose send failed is not sent again for the
\* id unless another message for the id or a removal of the id came
\* between.
C19_AbsorbedNeverRetried ==
    [][\A id \in Ids, msg \in {"danger", "warn", "recovery"} :
          Sends(id, msg) =>
              /\ mpc' \in {"sleep", "fetch"}
              /\ mkeys' = Tail(mkeys)
              /\ alerted' = alerted
              /\ ~FailedLast(id, msg)]_vars

----------------------------------------------------------------------------
(* C20: GET /accounts *)

\* C20: the count a GET /accounts returns is the number of records in the
\* list it returns.
C20_CountIsLength == listing.count = Len(listing.accounts)

====
